---- MODULE Spec2Model ----
(***************************************************************************)
(* A model of python_ags4/check.py: the AGS4 rule engine.  The error log   *)
(* (ags_errors) is a mapping from rule identifier to a sequence of         *)
(* records; every validator receives the log, appends to it through        *)
(* add_error_msg and returns it.  A validator that raises an exception it  *)
(* does not catch ends the check run (fault).                              *)
(*                                                                         *)
(* Strings that the code only compares or formats are TLA+ strings.  A     *)
(* raw line is a sequence of tokens: the characters '"', ',', ' ', '_', CR, *)
(* LF one token each, and every maximal run of other characters one token. *)
(***************************************************************************)
EXTENDS Naturals, Sequences, FiniteSets, TLC

VARIABLES
  ags_errors,   \* the ErrorLog: rule identifier -> sequence of records
  tables,       \* parsed groups: [order |-> groups in file order, rows |-> group -> rows]
  headings,     \* heading index: group -> sequence of heading names ("HEADING" first)
  input_files,  \* the dictionary sources handed to combine_DICT_tables
  dictionary,   \* the merged dictionary (NoDict until the merger has returned)
  halted,       \* TRUE once sys.exit() has ended the process
  fault,        \* "none", or the exception that left a validator uncaught
  last,         \* the last call: its name, its arguments and the log it was given
  ncalls,       \* number of validator calls made on the current log
  hashseed,     \* the string-hash seed of the running interpreter process
  first_run,    \* the log a completed earlier run of the rule set returned
  defaults      \* validator -> the log object its ags_errors={} default is bound to

vars == <<ags_errors, tables, headings, input_files, dictionary, halted, fault, last, ncalls,
          hashseed, first_run, defaults>>

----------------------------------------------------------------------------
(* Bounds of the model *)

MaxCalls == 2        \* validator calls on one log (general machine)
MaxLineCalls == 2    \* rule_4b calls on one log
MaxFields == 2       \* fields that follow the descriptor on a raw line
MaxRows == 2         \* rows of an enumerated child table
MaxParentRows == 1   \* rows of an enumerated parent table
MaxDictRows == 3     \* dictionary rows over all sources
MaxFiles == 2        \* dictionary sources
MaxSchemaRows == 3   \* rows of an enumerated dictionary (heading rules)
MaxHeadings == 2     \* headings of the enumerated group (heading rules)

----------------------------------------------------------------------------
(* Sequence helpers *)

Range(s) == {s[i] : i \in 1..Len(s)}

IsPrefix(s, t) == Len(s) <= Len(t) /\ \A i \in 1..Len(s) : s[i] = t[i]

RECURSIVE Flatten(_)
Flatten(ss) == IF ss = <<>> THEN <<>> ELSE Head(ss) \o Flatten(Tail(ss))

\* '|'.join(list)
RECURSIVE Join(_)
Join(ss) ==
  IF ss = <<>> THEN ""
  ELSE IF Len(ss) = 1 THEN ss[1]
  ELSE ss[1] \o "|" \o Join(Tail(ss))

----------------------------------------------------------------------------
(* The Error Aggregator *)

EmptyLog == <<>>

Record(line, group, desc) == [line |-> line, group |-> group, desc |-> desc]

\* A plausible slip: the rule's sequence is re-created on every call.
add_error_msg_Overwrite(errs, rule, line, group, desc) ==
  IF rule \in DOMAIN errs
  THEN [errs EXCEPT ![rule] = <<Record(line, group, desc)>>]
  ELSE errs @@ (rule :> <<Record(line, group, desc)>>)

add_error_msg(errs, rule, line, group, desc) ==
  IF rule \in DOMAIN errs
  THEN [errs EXCEPT ![rule] = Append(@, Record(line, group, desc))]
  ELSE errs @@ (rule :> <<Record(line, group, desc)>>)

\* What a validator hands back: the log, and the exception it raised (if any).
Ok(errs) == [errs |-> errs, exc |-> "none"]
Raise(errs, e) == [errs |-> errs, exc |-> e]

----------------------------------------------------------------------------
(* Raw lines *)

Q == "\""
Whitespace == {" ", "\r", "\n"}

\* str.strip('"')
RECURSIVE LStripQ(_)
LStripQ(s) == IF s # <<>> /\ Head(s) = Q THEN LStripQ(Tail(s)) ELSE s
RECURSIVE RStripQ(_)
RStripQ(s) == IF s # <<>> /\ s[Len(s)] = Q THEN RStripQ(SubSeq(s, 1, Len(s) - 1)) ELSE s
StripQ(s) == RStripQ(LStripQ(s))

\* str.rstrip()
RECURSIVE RStrip(_)
RStrip(s) ==
  IF s # <<>> /\ s[Len(s)] \in Whitespace THEN RStrip(SubSeq(s, 1, Len(s) - 1)) ELSE s

\* str.startswith((...)) for descriptors that are whole tokens
StartsWith(s, words) == s # <<>> /\ Head(s) \in words

\* str.split('","'): the fields between non-overlapping occurrences, left to right
RECURSIVE SplitQCQ(_, _)
SplitQCQ(s, cur) ==
  IF s = <<>> THEN <<cur>>
  ELSE IF Len(s) >= 3 /\ s[1] = Q /\ s[2] = "," /\ s[3] = Q
       THEN <<cur>> \o SplitQCQ(SubSeq(s, 4, Len(s)), <<>>)
       ELSE SplitQCQ(Tail(s), Append(cur, Head(s)))

\* temp = line.rstrip().split('","'); temp = [item.strip('"') for item in temp]
Fields(line) ==
  LET parts == SplitQCQ(RStrip(line), <<>>)
  IN  [i \in 1..Len(parts) |-> StripQ(parts[i])]

----------------------------------------------------------------------------
(* Line rules *)

\* tokens that stand for a run of characters outside the 7-bit ASCII range
NonAscii == {"\\u00e9"}

\* str.isascii()
IsAscii(line) == \A i \in 1..Len(line) : line[i] \notin NonAscii

rule_1(line, line_number, errs) ==
  IF ~IsAscii(line)
  THEN Ok(add_error_msg(errs, "Rule 1", ToString(line_number), "", "Has Non-ASCII character(s)."))
  ELSE Ok(errs)

\* line[-2:] != '\r\n'
EndsWithCRLF(line) == Len(line) >= 2 /\ line[Len(line) - 1] = "\r" /\ line[Len(line)] = "\n"

rule_2a(line, line_number, errs) ==
  IF ~EndsWithCRLF(line)
  THEN Ok(add_error_msg(errs, "Rule 2a", ToString(line_number), "", "Is not terminated by <CR> and <LF> characters."))
  ELSE Ok(errs)

HeadingsRowMissing == "Headings row missing."
FieldCountMismatch == "Number of fields does not match the HEADING row."

AlreadyReported(errs, group) ==
  \E i \in 1..Len(errs["Rule 4b"]) :
     errs["Rule 4b"][i].group = group /\ errs["Rule 4b"][i].desc = HeadingsRowMissing

\* A plausible slip: the repetition check is left out.
rule_4b_NoDedup(line, line_number, group, hdgs, errs) ==
  IF StartsWith(StripQ(line), {"UNIT", "TYPE", "DATA"})
  THEN IF Len(hdgs) = 0
       THEN Ok(add_error_msg(errs, "Rule 4b", "-", group, HeadingsRowMissing))
       ELSE IF Len(Fields(line)) # Len(hdgs)
            THEN Ok(add_error_msg(errs, "Rule 4b", ToString(line_number), group, FieldCountMismatch))
            ELSE Ok(errs)
  ELSE Ok(errs)

\* A plausible slip: only rows that are too short are reported.
rule_4b_OnlyShort(line, line_number, group, hdgs, errs) ==
  IF StartsWith(StripQ(line), {"UNIT", "TYPE", "DATA"})
  THEN IF Len(hdgs) = 0
       THEN IF "Rule 4b" \in DOMAIN errs
            THEN IF ~AlreadyReported(errs, group)
                 THEN Ok(add_error_msg(errs, "Rule 4b", "-", group, HeadingsRowMissing))
                 ELSE Ok(errs)
            ELSE Ok(add_error_msg(errs, "Rule 4b", "-", group, HeadingsRowMissing))
       ELSE IF Len(Fields(line)) < Len(hdgs)
            THEN Ok(add_error_msg(errs, "Rule 4b", ToString(line_number), group, FieldCountMismatch))
            ELSE Ok(errs)
  ELSE Ok(errs)

rule_4b(line, line_number, group, hdgs, errs) ==
  IF StartsWith(StripQ(line), {"UNIT", "TYPE", "DATA"})
  THEN IF Len(hdgs) = 0
       THEN IF "Rule 4b" \in DOMAIN errs
            THEN IF ~AlreadyReported(errs, group)
                 THEN Ok(add_error_msg(errs, "Rule 4b", "-", group, HeadingsRowMissing))
                 ELSE Ok(errs)
            ELSE Ok(add_error_msg(errs, "Rule 4b", "-", group, HeadingsRowMissing))
       ELSE IF Len(Fields(line)) # Len(hdgs)
            THEN Ok(add_error_msg(errs, "Rule 4b", ToString(line_number), group, FieldCountMismatch))
            ELSE Ok(errs)
  ELSE Ok(errs)

\* str.split('_'): the parts between the underscores of a field
RECURSIVE SplitUnderscore(_, _)
SplitUnderscore(s, cur) ==
  IF s = <<>> THEN <<cur>>
  ELSE IF Head(s) = "_" THEN <<cur>> \o SplitUnderscore(Tail(s), <<>>)
  ELSE SplitUnderscore(Tail(s), Append(cur, Head(s)))

\* the characters of a field or of a part of it, as one string
RECURSIVE Text(_)
Text(s) == IF s = <<>> THEN "" ELSE Head(s) \o Text(Tail(s))

Rule19bLengths(item) ==
  "Heading " \o Text(item)
    \o " should consist of a 4 charater group name and a field name of upto 4 characters."

Rule19bNoUnderscore(item) ==
  "Heading " \o Text(item) \o " should consist of group name and field name separated by \"_\"."

\* len(item.split('_')[0]) != 4 or len(item.split('_')[1]) > 4, with the IndexError of
\* [1] raised only when the first test is False
RECURSIVE rule_19b_items(_, _, _, _)
rule_19b_items(items, line_number, group, errs) ==
  IF items = <<>> THEN errs
  ELSE LET item == Head(items)
           parts == SplitUnderscore(item, <<>>)
           e1 == IF Len(Text(parts[1])) # 4
                 THEN add_error_msg(errs, "Rule 19b", ToString(line_number), group, Rule19bLengths(item))
                 ELSE IF Len(parts) < 2
                 THEN add_error_msg(errs, "Rule 19b", ToString(line_number), group,
                                    Rule19bNoUnderscore(item))
                 ELSE IF Len(Text(parts[2])) > 4
                 THEN add_error_msg(errs, "Rule 19b", ToString(line_number), group, Rule19bLengths(item))
                 ELSE errs
       IN  rule_19b_items(Tail(items), line_number, group, e1)

rule_19b(line, line_number, group, errs) ==
  IF StartsWith(StripQ(line), {"HEADING"}) /\ Len(Fields(line)) >= 2
  THEN Ok(rule_19b_items(Tail(Fields(line)), line_number, group, errs))
  ELSE Ok(errs)

----------------------------------------------------------------------------
(* Parsed groups.  A table is a sequence of rows (row numbering from zero   *)
(* in the code, from one here); a row maps each column to its value, the    *)
(* column "HEADING" holding the row's descriptor.                           *)

Keys(m) == Range(m.order)

\* df[col].tolist()
Column(t, col) == [i \in 1..Len(t) |-> t[i][col]]

\* df.loc[df['HEADING'] == desc, :]
RowsOfType(t, desc) == SelectSeq(t, LAMBDA r : r["HEADING"] = desc)

\* list[1:]
Rest(s) == IF s = <<>> THEN <<>> ELSE Tail(s)

\* dictionary.loc[dictionary.DICT_GRP == key, 'DICT_HDNG'].tolist()
ReferenceHeadings(dict, key) ==
  Column(SelectSeq(dict, LAMBDA e : e.DICT_GRP = key), "DICT_HDNG")

\* str.contains('key', case=False) and str.contains('required', case=False)
\* over the status tags that occur in the model
ContainsKey(stat) == stat \in {"KEY", "KEY+REQUIRED", "key"}
ContainsRequired(stat) == stat \in {"REQUIRED", "KEY+REQUIRED", "required"}

KeyFields(dict, group) ==
  Column(SelectSeq(dict, LAMBDA e : e.DICT_GRP = group /\ ContainsKey(e.DICT_STAT)), "DICT_HDNG")

RequiredFields(dict, group) ==
  Column(SelectSeq(dict, LAMBDA e : e.DICT_GRP = group /\ ContainsRequired(e.DICT_STAT)), "DICT_HDNG")

\* list.remove(x): drops the first occurrence
RECURSIVE RemoveFirst(_, _)
RemoveFirst(s, x) ==
  IF s = <<>> THEN <<>>
  ELSE IF Head(s) = x THEN Tail(s)
  ELSE <<Head(s)>> \o RemoveFirst(Tail(s), x)

----------------------------------------------------------------------------
(* Table rules *)

RECURSIVE rule_2_loop(_, _, _)
rule_2_loop(tbls, keys, errs) ==
  IF keys = <<>> THEN Ok(errs)
  ELSE LET key == Head(keys)
           e1 == IF "DATA" \notin Range(Column(tbls.rows[key], "HEADING"))
                 THEN add_error_msg(errs, "Rule 2", "-", key, "No DATA rows in group.")
                 ELSE errs
       IN  rule_2_loop(tbls, Tail(keys), e1)

rule_2(tbls, hdgs, errs) == rule_2_loop(tbls, tbls.order, errs)

\* tables[key].loc[n, 'HEADING'] after reset_index: KeyError when there is no row n
RECURSIVE rule_2b_loop(_, _, _)
rule_2b_loop(tbls, keys, errs) ==
  IF keys = <<>> THEN Ok(errs)
  ELSE LET key == Head(keys)
           t == tbls.rows[key]
           descs == Column(t, "HEADING")
           e1 == IF "UNIT" \notin Range(descs)
                 THEN add_error_msg(errs, "Rule 2b", "-", key, "UNIT row missing from group.")
                 ELSE IF t[1]["HEADING"] # "UNIT"
                 THEN add_error_msg(errs, "Rule 2b", "-", key,
                        "UNIT row is misplaced. It should be immediately below the HEADING row.")
                 ELSE errs
       IN  IF "TYPE" \notin Range(descs)
           THEN rule_2b_loop(tbls, Tail(keys),
                  add_error_msg(e1, "Rule 2b", "-", key, "TYPE row missing from group."))
           ELSE IF Len(t) < 2
           THEN Raise(e1, "KeyError")
           ELSE IF t[2]["HEADING"] # "TYPE"
           THEN rule_2b_loop(tbls, Tail(keys),
                  add_error_msg(e1, "Rule 2b", "-", key,
                    "TYPE row is misplaced. It should be immediately below the UNIT row."))
           ELSE rule_2b_loop(tbls, Tail(keys), e1)

rule_2b(tbls, hdgs, errs) == rule_2b_loop(tbls, tbls.order, errs)

\* temp = reference_headings_list.copy(); temp.remove(item) for every item not in headings[key]
RECURSIVE DropUnused(_, _, _)
DropUnused(items, temp, used) ==
  IF items = <<>> THEN temp
  ELSE DropUnused(Tail(items),
                  IF Head(items) \notin Range(used) THEN RemoveFirst(temp, Head(items)) ELSE temp,
                  used)

Rule7Unchecked ==
  "Order of headings could not be checked as one or more fields were not found in either the DICT table or the standard dictionary. Check error log under Rule 9."

Rule7Order(key) ==
  "HEADING names in " \o key \o " are not in the order that they are defined in the DICT table and the standard dictionary."

RECURSIVE rule_7_loop(_, _, _, _)
rule_7_loop(hdgs, dict, keys, errs) ==
  IF keys = <<>> THEN Ok(errs)
  ELSE LET key == Head(keys)
           ref == ReferenceHeadings(dict, key)
           e1 == IF Range(Rest(hdgs.cols[key])) \subseteq Range(ref)
                 THEN IF DropUnused(ref, ref, hdgs.cols[key]) # Rest(hdgs.cols[key])
                      THEN add_error_msg(errs, "Rule 7", "-", key, Rule7Order(key))
                      ELSE errs
                 ELSE add_error_msg(errs, "Rule 7", "-", key, Rule7Unchecked)
       IN  rule_7_loop(hdgs, dict, Tail(keys), e1)

\* A plausible slip: the two lists are compared as sets, so their order is not looked at.
RECURSIVE rule_7_AsSets_loop(_, _, _, _)
rule_7_AsSets_loop(hdgs, dict, keys, errs) ==
  IF keys = <<>> THEN Ok(errs)
  ELSE LET key == Head(keys)
           ref == ReferenceHeadings(dict, key)
           e1 == IF Range(Rest(hdgs.cols[key])) \subseteq Range(ref)
                 THEN IF Range(DropUnused(ref, ref, hdgs.cols[key])) # Range(Rest(hdgs.cols[key]))
                      THEN add_error_msg(errs, "Rule 7", "-", key, Rule7Order(key))
                      ELSE errs
                 ELSE add_error_msg(errs, "Rule 7", "-", key, Rule7Unchecked)
       IN  rule_7_AsSets_loop(hdgs, dict, Tail(keys), e1)

rule_7_AsSets(hdgs, dict, errs) == rule_7_AsSets_loop(hdgs, dict, hdgs.order, errs)

rule_7(hdgs, dict, errs) == rule_7_loop(hdgs, dict, hdgs.order, errs)

RECURSIVE rule_9_items(_, _, _, _)
rule_9_items(items, ref, key, errs) ==
  IF items = <<>> THEN errs
  ELSE rule_9_items(Tail(items), ref, key,
         IF Head(items) \notin Range(ref)
         THEN add_error_msg(errs, "Rule 9", "-", key,
                Head(items) \o " not found in DICT table or the standard AGS4 dictionary.")
         ELSE errs)

RECURSIVE rule_9_loop(_, _, _, _)
rule_9_loop(hdgs, dict, keys, errs) ==
  IF keys = <<>> THEN Ok(errs)
  ELSE rule_9_loop(hdgs, dict, Tail(keys),
         rule_9_items(Rest(hdgs.cols[Head(keys)]), ReferenceHeadings(dict, Head(keys)),
                      Head(keys), errs))

rule_9(hdgs, dict, errs) == rule_9_loop(hdgs, dict, hdgs.order, errs)

\* The rows that DataFrame.duplicated(cols, keep=False) marks
Duplicated(t, cols) ==
  {i \in 1..Len(t) : \E j \in 1..Len(t) : j # i /\ \A c \in Range(cols) : t[j][c] = t[i][c]}

\* [row[c] for c in cols]
Cells(row, cols) == [k \in 1..Len(cols) |-> row[cols[k]]]

RECURSIVE rule_10a_missing(_, _, _, _)
rule_10a_missing(fields, present, group, errs) ==
  IF fields = <<>> THEN errs
  ELSE rule_10a_missing(Tail(fields), present, group,
         IF Head(fields) \notin Range(present)
         THEN add_error_msg(errs, "Rule 10a", "-", group, "Key field " \o Head(fields) \o " not found.")
         ELSE errs)

RECURSIVE rule_10a_rows(_, _, _, _, _)
rule_10a_rows(t, i, cols, group, errs) ==
  IF i > Len(t) THEN errs
  ELSE rule_10a_rows(t, i + 1, cols, group,
         IF i \in Duplicated(t, cols)
         THEN add_error_msg(errs, "Rule 10a", "-", group,
                "Duplicate key field combination: " \o Join(Cells(t[i], cols)))
         ELSE errs)

RECURSIVE rule_10a_loop(_, _, _, _, _)
rule_10a_loop(tbls, hdgs, dict, groups, errs) ==
  IF groups = <<>> THEN Ok(errs)
  ELSE LET group == Head(groups)
           key_fields == KeyFields(dict, group)
           e1 == rule_10a_missing(key_fields, hdgs.cols[group], group, errs)
           e2 == IF Range(key_fields) \subseteq Range(hdgs.cols[group])
                 THEN rule_10a_rows(tbls.rows[group], 1, <<"HEADING">> \o key_fields, group, e1)
                 ELSE e1
       IN  rule_10a_loop(tbls, hdgs, dict, Tail(groups), e2)

rule_10a(tbls, hdgs, dict, errs) == rule_10a_loop(tbls, hdgs, dict, tbls.order, errs)

----------------------------------------------------------------------------
(* Iteration over a Python set visits the elements in an order fixed by the *)
(* interpreter's string hashing, which differs from one process to the      *)
(* next.  A seed stands for one process's order: the model has two.         *)

HashSeeds == {"seedA", "seedB"}

RECURSIVE SetToSeq(_)
SetToSeq(S) ==
  IF S = {} THEN <<>>
  ELSE LET x == CHOOSE y \in S : TRUE IN <<x>> \o SetToSeq(S \ {x})

Reverse(s) == [i \in 1..Len(s) |-> s[Len(s) + 1 - i]]

SetOrder(S, seed) == IF seed = "seedA" THEN SetToSeq(S) ELSE Reverse(SetToSeq(S))

\* regex ^\s*$ over the cell values of the model
Blank(v) == v \in {"", " "}

\* df[heading] = df[heading].str.replace('^\s*$', '???', regex=True)
MarkBlank(t, heading) ==
  [i \in 1..Len(t) |-> [t[i] EXCEPT ![heading] = IF Blank(@) THEN "???" ELSE @]]

RECURSIVE rule_10b_missing(_, _, _, _)
rule_10b_missing(fields, present, group, errs) ==
  IF fields = <<>> THEN errs
  ELSE rule_10b_missing(Tail(fields), present, group,
         IF Head(fields) \notin Range(present)
         THEN add_error_msg(errs, "Rule 10b", "-", group, "Required field " \o Head(fields) \o " not found.")
         ELSE errs)

\* one record for every row i of mask, in row order, formatted from df
RECURSIVE rule_10b_rows(_, _, _, _, _, _)
rule_10b_rows(df, i, mask, cols, group, errs) ==
  IF i > Len(df) THEN errs
  ELSE rule_10b_rows(df, i + 1, mask, cols, group,
         IF i \in mask
         THEN add_error_msg(errs, "Rule 10b", "-", group,
                "Empty REQUIRED fields: " \o Join(Cells(df[i], cols)))
         ELSE errs)

RECURSIVE rule_10b_headings(_, _, _, _, _)
rule_10b_headings(df, todo, cols, group, errs) ==
  IF todo = <<>> THEN errs
  ELSE LET heading == Head(todo)
           mask == {i \in 1..Len(df) : df[i]["HEADING"] = "DATA" /\ Blank(df[i][heading])}
           df2 == MarkBlank(df, heading)
       IN  rule_10b_headings(df2, Tail(todo), cols, group,
                             rule_10b_rows(df2, 1, mask, cols, group, errs))

RECURSIVE rule_10b_loop(_, _, _, _, _, _)
rule_10b_loop(tbls, hdgs, dict, groups, errs, seed) ==
  IF groups = <<>> THEN Ok(errs)
  ELSE LET group == Head(groups)
           required_fields == RequiredFields(dict, group)
           e1 == rule_10b_missing(required_fields, hdgs.cols[group], group, errs)
           todo == SetOrder(Range(required_fields) \cap Range(hdgs.cols[group]), seed)
       IN  rule_10b_loop(tbls, hdgs, dict, Tail(groups),
                         rule_10b_headings(tbls.rows[group], todo, hdgs.cols[group], group, e1),
                         seed)

rule_10b(tbls, hdgs, dict, errs, seed) == rule_10b_loop(tbls, hdgs, dict, tbls.order, errs, seed)

----------------------------------------------------------------------------
(* Rule 10c *)

ExemptGroups == {"PROJ", "TRAN", "ABBR", "DICT", "UNIT", "TYPE", "LOCA"}

\* dictionary.loc[(DICT_TYPE == 'GROUP') & (DICT_GRP == group), 'DICT_PGRP'].to_list()
ParentGroups(dict, group) ==
  Column(SelectSeq(dict, LAMBDA e : e.DICT_TYPE = "GROUP" /\ e.DICT_GRP = group), "DICT_PGRP")

\* child_df.merge(parent_df, how='left', on=keys, indicator=True).query('_merge=="left_only"'):
\* the child rows, of whatever descriptor, whose key values are those of no parent row
OrphanRows(child, parent, keys) ==
  SelectSeq(child, LAMBDA r : ~\E j \in 1..Len(parent) : \A k \in Range(keys) : parent[j][k] = r[k])

RECURSIVE rule_10c_rows(_, _, _, _, _)
rule_10c_rows(orphans, keys, group, parent_group, errs) ==
  IF orphans = <<>> THEN errs
  ELSE rule_10c_rows(Tail(orphans), keys, group, parent_group,
         add_error_msg(errs, "Rule 10a", "-", group,
           "Parent entry for line not found in " \o parent_group \o ": " \o Join(Cells(Head(orphans), keys))))

\* One group of rule_10c.  A merge on an empty list of key fields is refused by
\* pandas with an exception whose class depends on the pandas release (on_empty).
rule_10c_group(tbls, hdgs, dict, group, errs, on_empty) ==
  IF group \in ExemptGroups THEN Ok(errs)
  ELSE IF ParentGroups(dict, group) = <<>>
  THEN Ok(add_error_msg(errs, "Rule 10c", "-", group,
         "Could not check parent entries since group definitions not found in standard dictionary or DICT table."))
  ELSE LET parent_group == ParentGroups(dict, group)[1]
           parent_key_fields == KeyFields(dict, parent_group)
       IN  IF parent_group = ""
           THEN Ok(add_error_msg(errs, "Rule 10c", "-", group, "Parent group left blank in dictionary."))
           ELSE IF parent_group \notin Keys(tbls)
           THEN Ok(add_error_msg(errs, "Rule 10c", "-", group,
                  "Could not find parent group " \o parent_group \o "."))
           ELSE IF Range(parent_key_fields) \subseteq Range(hdgs.cols[group])
                   /\ Range(parent_key_fields) \subseteq Range(hdgs.cols[parent_group])
           THEN IF parent_key_fields = <<>>
                THEN IF on_empty = "IndexError"
                     THEN Ok(add_error_msg(errs, "Rule 10c", "-", group,
                            "Could not check parent entries since group definitions not found in standard dictionary or DICT table."))
                     ELSE Raise(errs, on_empty)
                ELSE Ok(rule_10c_rows(OrphanRows(tbls.rows[group], tbls.rows[parent_group], parent_key_fields),
                                      parent_key_fields, group, parent_group, errs))
           ELSE Ok(add_error_msg(errs, "Rule 10c", "-", group,
                  "Could not check parent entries due to missing key fields in " \o group \o " or "
                  \o parent_group \o ". Check error log under Rule 10a."))

RECURSIVE rule_10c_loop(_, _, _, _, _, _)
rule_10c_loop(tbls, hdgs, dict, groups, errs, on_empty) ==
  IF groups = <<>> THEN Ok(errs)
  ELSE LET r == rule_10c_group(tbls, hdgs, dict, Head(groups), errs, on_empty)
       IN  IF r.exc # "none" THEN r
           ELSE rule_10c_loop(tbls, hdgs, dict, Tail(groups), r.errs, on_empty)

rule_10c(tbls, hdgs, dict, errs, on_empty) ==
  rule_10c_loop(tbls, hdgs, dict, tbls.order, errs, on_empty)

----------------------------------------------------------------------------
(* Rules 13 to 19c *)

\* rule_13 and rule_14 differ in the group and the rule identifier only
SingletonRule(tbls, errs, rule, group) ==
  IF group \notin Keys(tbls)
  THEN Ok(add_error_msg(errs, rule, "-", group, group \o " table not found."))
  ELSE IF Len(RowsOfType(tbls.rows[group], "DATA")) < 1
  THEN Ok(add_error_msg(errs, rule, "-", group,
         "There should be at least one DATA row in the " \o group \o " table."))
  ELSE IF Len(RowsOfType(tbls.rows[group], "DATA")) > 1
  THEN Ok(add_error_msg(errs, rule, "-", group,
         "There should not be more than one DATA row in the " \o group \o " table."))
  ELSE Ok(errs)

rule_13(tbls, hdgs, errs) == SingletonRule(tbls, errs, "Rule 13", "PROJ")

rule_14(tbls, hdgs, errs) == SingletonRule(tbls, errs, "Rule 14", "TRAN")

\* df.loc[df['HEADING'] == desc, :].values.flatten().tolist(), as the set of its values
CellsOfType(t, cols, desc) ==
  UNION {Range(Cells(RowsOfType(t, desc)[i], cols)) : i \in 1..Len(RowsOfType(t, desc))}

AllCellsOfType(tbls, hdgs, desc) ==
  UNION {CellsOfType(tbls.rows[g], hdgs.cols[g], desc) : g \in Keys(tbls)}

RECURSIVE ClosureEntries(_, _, _, _, _)
ClosureEntries(entries, declared, skip, errs, what) ==
  IF entries = <<>> THEN errs
  ELSE ClosureEntries(Tail(entries), declared, skip,
         IF Head(entries) \notin declared /\ Head(entries) \notin skip
         THEN add_error_msg(errs, what.rule, "-", "-",
                what.prefix \o Head(entries) \o what.suffix)
         ELSE errs,
         what)

\* rule_15 and rule_17 share their shape: group, its code column, the descriptor
\* collected and the values that are never reported
ClosureRule(tbls, hdgs, errs, seed, what) ==
  IF what.group \notin Keys(tbls)
  THEN Ok(add_error_msg(errs, what.rule, "-", what.group, what.group \o " table not found."))
  ELSE IF what.column \notin Range(hdgs.cols[what.group])
  THEN Ok(errs)
  ELSE Ok(ClosureEntries(SetOrder(AllCellsOfType(tbls, hdgs, what.desc), seed),
                         Range(Column(RowsOfType(tbls.rows[what.group], "DATA"), what.column)),
                         what.skip, errs, what))

rule_15(tbls, hdgs, errs, seed) ==
  ClosureRule(tbls, hdgs, errs, seed,
    [rule |-> "Rule 15", group |-> "UNIT", column |-> "UNIT_UNIT", desc |-> "UNIT",
     skip |-> {"", "UNIT"}, prefix |-> "Unit \"", suffix |-> "\" not found in UNIT table."])

rule_17(tbls, hdgs, errs, seed) ==
  ClosureRule(tbls, hdgs, errs, seed,
    [rule |-> "Rule 17", group |-> "TYPE", column |-> "TYPE_TYPE", desc |-> "TYPE",
     skip |-> {"TYPE"}, prefix |-> "Data type \"", suffix |-> "\" not found in TYPE table."])

\* rule_18 with the look at Rule 9 left out (a plausible slip)
rule_18_NoRule9(tbls, hdgs, errs) ==
  IF "DICT" \notin Keys(tbls)
  THEN Ok(add_error_msg(errs, "Rule 18", "-", "DICT",
         "DICT table not found. See error log under Rule 9 for a list of non-standard headings that need to be defined in a DICT table."))
  ELSE Ok(errs)

rule_18(tbls, hdgs, errs) ==
  IF "DICT" \notin Keys(tbls) /\ "Rule 9" \in DOMAIN errs
  THEN Ok(add_error_msg(errs, "Rule 18", "-", "DICT",
         "DICT table not found. See error log under Rule 9 for a list of non-standard headings that need to be defined in a DICT table."))
  ELSE Ok(errs)

\* heading.split('_') over the heading names of the model
UnderscoreParts ==
  [h \in {"LOCA_ID", "LOCA_TYPE", "GEOL_TOP", "GEOL_GEOL", "PROJ_ID", "TRAN_RCON", "UNIT_UNIT",
          "TYPE_TYPE", "ABBR_HDNG", "ABBR_CODE", "SPEC", "DICT_TYPE", "DICT_GRP", "DICT_HDNG",
          "DICT_STAT", "DICT_PGRP"} |->
     CASE h = "LOCA_ID" -> <<"LOCA", "ID">>
       [] h = "LOCA_TYPE" -> <<"LOCA", "TYPE">>
       [] h = "GEOL_TOP" -> <<"GEOL", "TOP">>
       [] h = "GEOL_GEOL" -> <<"GEOL", "GEOL">>
       [] h = "PROJ_ID" -> <<"PROJ", "ID">>
       [] h = "TRAN_RCON" -> <<"TRAN", "RCON">>
       [] h = "UNIT_UNIT" -> <<"UNIT", "UNIT">>
       [] h = "TYPE_TYPE" -> <<"TYPE", "TYPE">>
       [] h = "ABBR_HDNG" -> <<"ABBR", "HDNG">>
       [] h = "ABBR_CODE" -> <<"ABBR", "CODE">>
       [] h = "DICT_TYPE" -> <<"DICT", "TYPE">>
       [] h = "DICT_GRP" -> <<"DICT", "GRP">>
       [] h = "DICT_HDNG" -> <<"DICT", "HDNG">>
       [] h = "DICT_STAT" -> <<"DICT", "STAT">>
       [] h = "DICT_PGRP" -> <<"DICT", "PGRP">>
       [] h = "SPEC" -> <<"SPEC">>]

RECURSIVE rule_19c_items(_, _, _, _)
rule_19c_items(items, dict, key, errs) ==
  IF items = <<>> THEN errs
  ELSE rule_19c_items(Tail(items), dict, key,
         IF UnderscoreParts[Head(items)][1] # key
            /\ Head(items) \notin Range(Column(dict, "DICT_HDNG"))
         THEN add_error_msg(errs, "Rule 19b", "-", key,
                Head(items) \o " does not start with the name of this group, nor is it defined in another group.")
         ELSE errs)

RECURSIVE rule_19c_loop(_, _, _, _)
rule_19c_loop(hdgs, dict, keys, errs) ==
  IF keys = <<>> THEN Ok(errs)
  ELSE rule_19c_loop(hdgs, dict, Tail(keys),
         rule_19c_items(Rest(hdgs.cols[Head(keys)]), dict, Head(keys), errs))

rule_19c(tbls, hdgs, dict, errs) == rule_19c_loop(hdgs, dict, hdgs.order, errs)

----------------------------------------------------------------------------
(* Rule 16 *)

\* entry.split(concatenator) over the cell values and concatenators of the model:
\* "A+B" is the one value that holds the concatenator "+"
SplitBy(v, sep) == IF sep = "+" /\ v = "A+B" THEN <<"A", "B">> ELSE <<v>>

\* for group in tables: for heading in headings[group]
GroupHeadingPairs(tbls, hdgs) ==
  Flatten([i \in 1..Len(tbls.order) |->
            [j \in 1..Len(hdgs.cols[tbls.order[i]]) |-> <<tbls.order[i], hdgs.cols[tbls.order[i]][j]>>]])

RECURSIVE rule_16_entries(_, _, _, _, _)
rule_16_entries(entries, codes, heading, group, errs) ==
  IF entries = <<>> THEN errs
  ELSE rule_16_entries(Tail(entries), codes, heading, group,
         IF Head(entries) \notin codes /\ Head(entries) # ""
         THEN add_error_msg(errs, "Rule 16", "-", group,
                "\"" \o Head(entries) \o "\" under " \o heading \o " in " \o group \o " not found in ABBR table.")
         ELSE errs)

\* The body of the loop for one PA column when the ABBR group exists.
rule_16_column(tbls, hdgs, group, heading, errs, seed) ==
  LET entries == SetOrder(Range(Column(RowsOfType(tbls.rows[group], "DATA"), heading)), seed)
      hasRCON == "TRAN" \in Keys(tbls) /\ "TRAN_RCON" \in Range(hdgs.cols["TRAN"])
      tranData == RowsOfType(tbls.rows["TRAN"], "DATA")
      ABBR == tbls.rows["ABBR"]
      codes == Range(Column(SelectSeq(ABBR, LAMBDA r : r["ABBR_HDNG"] = heading), "ABBR_CODE"))
      check(es) ==
        IF {"ABBR_HDNG", "ABBR_CODE"} \subseteq Range(hdgs.cols["ABBR"])
        THEN Ok(rule_16_entries(es, codes, heading, group, errs))
        ELSE Ok(errs)
  IN  IF ~hasRCON THEN check(entries)
      ELSE IF tranData = <<>> THEN Raise(errs, "IndexError")
      ELSE IF tranData[1]["TRAN_RCON"] = "" /\ entries # <<>> THEN Raise(errs, "ValueError")
      ELSE check(Flatten([i \in 1..Len(entries) |-> SplitBy(entries[i], tranData[1]["TRAN_RCON"])]))

\* try: the ABBR group exists
RECURSIVE rule_16_try(_, _, _, _, _)
rule_16_try(tbls, hdgs, pairs, errs, seed) ==
  IF pairs = <<>> THEN Ok(errs)
  ELSE LET group == Head(pairs)[1]
           heading == Head(pairs)[2]
           typeRows == RowsOfType(tbls.rows[group], "TYPE")
       IN  IF typeRows = <<>> THEN Raise(errs, "IndexError")
           ELSE IF typeRows[1][heading] = "PA"
           THEN LET r == rule_16_column(tbls, hdgs, group, heading, errs, seed)
                IN  IF r.exc # "none" THEN r
                    ELSE rule_16_try(tbls, hdgs, Tail(pairs), r.errs, seed)
           ELSE rule_16_try(tbls, hdgs, Tail(pairs), errs, seed)

\* except KeyError: there is no ABBR group
RECURSIVE rule_16_except(_, _, _)
rule_16_except(tbls, pairs, errs) ==
  IF pairs = <<>> THEN Ok(errs)
  ELSE LET typeRows == RowsOfType(tbls.rows[Head(pairs)[1]], "TYPE")
       IN  IF typeRows = <<>> THEN Raise(errs, "IndexError")
           ELSE IF typeRows[1][Head(pairs)[2]] = "PA"
           THEN Ok(add_error_msg(errs, "Rule 16", "-", "ABBR", "ABBR table not found."))
           ELSE rule_16_except(tbls, Tail(pairs), errs)

rule_16(tbls, hdgs, dict, errs, seed) ==
  IF "ABBR" \in Keys(tbls)
  THEN rule_16_try(tbls, hdgs, GroupHeadingPairs(tbls, hdgs), errs, seed)
  ELSE rule_16_except(tbls, GroupHeadingPairs(tbls, hdgs), errs)

----------------------------------------------------------------------------
(* The Dictionary Merger *)

DictKey(e) == <<e.HEADING, e.DICT_TYPE, e.DICT_GRP, e.DICT_HDNG>>

\* A reading of "duplicate" that looks at the group and the heading only.
DictKey_GroupHeading(e) == <<e.DICT_GRP, e.DICT_HDNG>>

\* DataFrame.drop_duplicates(subset, keep='first')
DropDuplicates(rows) ==
  LET keep == {i \in 1..Len(rows) : ~\E j \in 1..(i - 1) : DictKey(rows[j]) = DictKey(rows[i])}
      RECURSIVE pick(_)
      pick(i) == IF i > Len(rows) THEN <<>>
                 ELSE (IF i \in keep THEN <<rows[i]>> ELSE <<>>) \o pick(i + 1)
  IN  pick(1)

\* master_DICT = concat([master_DICT, tables['DICT']]) for every file that has a DICT table
RECURSIVE ConcatDICT(_)
ConcatDICT(files) ==
  IF files = <<>> THEN <<>>
  ELSE (IF Head(files).has_DICT THEN Head(files).DICT ELSE <<>>) \o ConcatDICT(Tail(files))

\* A plausible slip: the emptiness check is left out.
combine_DICT_tables_NoExit(files) ==
  [exit |-> FALSE, DICT |-> DropDuplicates(ConcatDICT(files))]

\* A plausible slip: the later duplicate is the one kept.
combine_DICT_tables_KeepLast(files) ==
  IF Len(ConcatDICT(files)) = 0
  THEN [exit |-> TRUE, DICT |-> <<>>]
  ELSE [exit |-> FALSE, DICT |-> Reverse(DropDuplicates(Reverse(ConcatDICT(files))))]

combine_DICT_tables(files) ==
  IF Len(ConcatDICT(files)) = 0
  THEN [exit |-> TRUE, DICT |-> <<>>]
  ELSE [exit |-> FALSE, DICT |-> DropDuplicates(ConcatDICT(files))]

----------------------------------------------------------------------------
(* Inputs *)

\* all sequences over S of length at most n
RECURSIVE SeqsUpTo(_, _)
SeqsUpTo(S, n) ==
  IF n = 0 THEN {<<>>}
  ELSE LET shorter == SeqsUpTo(S, n - 1)
       IN  shorter \cup {Append(s, x) : s \in {t \in shorter : Len(t) = n - 1}, x \in S}

\* a row from its columns and their values
MkRow(cols, vals) == [c \in Range(cols) |-> vals[CHOOSE i \in 1..Len(cols) : cols[i] = c]]

\* a file's parsed groups from a sequence of [name, cols, rows]
MkTables(groups) ==
  [order |-> [i \in 1..Len(groups) |-> groups[i].name],
   rows  |-> [g \in {groups[i].name : i \in 1..Len(groups)} |->
               (CHOOSE x \in Range(groups) : x.name = g).rows]]

MkHeadings(groups) ==
  [order |-> [i \in 1..Len(groups) |-> groups[i].name],
   cols  |-> [g \in {groups[i].name : i \in 1..Len(groups)} |->
               (CHOOSE x \in Range(groups) : x.name = g).cols]]

Group(name, cols, rowvals) ==
  [name |-> name, cols |-> cols, rows |-> [i \in 1..Len(rowvals) |-> MkRow(cols, rowvals[i])]]

NoTables == [order |-> <<>>, rows |-> <<>>]
NoHeadings == [order |-> <<>>, cols |-> <<>>]

\* a dictionary row
Entry(desc, type, grp, hdng, stat, pgrp) ==
  [HEADING |-> desc, DICT_TYPE |-> type, DICT_GRP |-> grp, DICT_HDNG |-> hdng,
   DICT_STAT |-> stat, DICT_PGRP |-> pgrp]

NoDictionary == [built |-> FALSE, DICT |-> <<>>]
NoRun == [done |-> FALSE, errs |-> EmptyLog]

\* the validators the model calls without a log; each 'def ...(..., ags_errors={})' binds
\* its default to one dictionary, made when the function is defined
DefaultOwners == {"rule_1", "rule_2a", "rule_10a"}
NoDefaults == [f \in DefaultOwners |-> EmptyLog]
NoCall ==
  [op |-> "none", line |-> <<>>, line_number |-> 0, group |-> "", hdgs |-> <<>>, pre |-> EmptyLog]

\* The standard dictionary of the model: LOCA and GEOL, GEOL a child of LOCA.
StdDict ==
  << Entry("DATA", "GROUP", "LOCA", "", "", ""),
     Entry("DATA", "HEADING", "LOCA", "LOCA_ID", "KEY+REQUIRED", ""),
     Entry("DATA", "GROUP", "GEOL", "", "", "LOCA"),
     Entry("DATA", "HEADING", "GEOL", "LOCA_ID", "KEY+REQUIRED", ""),
     Entry("DATA", "HEADING", "GEOL", "GEOL_TOP", "KEY", "") >>

----------------------------------------------------------------------------
(* Raw lines of the model: a descriptor and up to MaxFields further fields, *)
(* separated by '","' or by a bare comma, with or without the enclosing     *)
(* quotes, ended by CR LF.                                                  *)

Descriptors == {"GROUP", "HEADING", "UNIT", "TYPE", "DATA"}

RECURSIVE JoinFields(_, _)
JoinFields(fields, sep) ==
  IF Len(fields) = 1 THEN <<fields[1]>>
  ELSE <<fields[1]>> \o sep \o JoinFields(Tail(fields), sep)

Lines ==
  { (IF quoted THEN <<Q>> ELSE <<>>)
      \o JoinFields(<<d>> \o [i \in 1..n |-> "x"], sep)
      \o (IF quoted THEN <<Q>> ELSE <<>>) \o <<"\r", "\n">> :
    d \in Descriptors, n \in 0..MaxFields, quoted \in BOOLEAN,
    sep \in {<<Q, ",", Q>>, <<",">>} }

\* the heading rows a line is checked against: none, or "HEADING" and some names
HeadingRows == {[i \in 1..n |-> IF i = 1 THEN "HEADING" ELSE "H"] : n \in 0..(MaxFields + 1)}

LineGroups == {"LOCA", "GEOL"}

----------------------------------------------------------------------------
(* Files of the general machine: every combination of a few variants of     *)
(* each group.  The variants hold the shapes the rules branch on: a group   *)
(* with a single TYPE row, a group with no TYPE row, a child row with no    *)
(* parent, a TRAN group with no DATA row, missing support groups.           *)

LOCA_cols == <<"HEADING", "LOCA_ID", "LOCA_TYPE">>
GEOL_cols == <<"HEADING", "LOCA_ID", "GEOL_TOP">>
DICT_cols == <<"HEADING", "DICT_TYPE", "DICT_GRP", "DICT_HDNG", "DICT_STAT", "DICT_PGRP">>

LOCA_variants ==
  { <<Group("LOCA", LOCA_cols, << <<"UNIT", "", "">>, <<"TYPE", "ID", "PA">>, <<"DATA", "a", "A+B">> >>)>>,
    <<Group("LOCA", LOCA_cols, << <<"TYPE", "ID", "PA">> >>)>>,
    <<Group("LOCA", LOCA_cols, << <<"UNIT", "", "">>, <<"DATA", "a", "">> >>)>> }

GEOL_variants ==
  { <<>>,
    <<Group("GEOL", GEOL_cols, << <<"UNIT", "", "m">>, <<"TYPE", "ID", "2DP">>,
                                  <<"DATA", "b", "1">>, <<"DATA", "a", "">> >>)>> }

TRAN_variants ==
  { <<>>,
    <<Group("TRAN", <<"HEADING", "TRAN_RCON">>, << <<"UNIT", "">>, <<"TYPE", "X">> >>)>>,
    <<Group("TRAN", <<"HEADING", "TRAN_RCON">>, << <<"UNIT", "">>, <<"TYPE", "X">>, <<"DATA", "+">> >>)>> }

\* PROJ, UNIT, TYPE and ABBR: all there, or none
Support_variants ==
  { <<>>,
    << Group("PROJ", <<"HEADING", "PROJ_ID">>, << <<"UNIT", "">>, <<"TYPE", "ID">>, <<"DATA", "p">> >>),
       Group("UNIT", <<"HEADING", "UNIT_UNIT">>, << <<"UNIT", "">>, <<"TYPE", "X">>, <<"DATA", "ft">> >>),
       Group("TYPE", <<"HEADING", "TYPE_TYPE">>, << <<"UNIT", "">>, <<"TYPE", "X">>, <<"DATA", "X">> >>),
       Group("ABBR", <<"HEADING", "ABBR_HDNG", "ABBR_CODE">>,
             << <<"UNIT", "", "">>, <<"TYPE", "X", "X">>, <<"DATA", "LOCA_TYPE", "A">> >>) >> }

DICT_variants ==
  { <<>>,
    <<Group("DICT", DICT_cols,
            << <<"UNIT", "", "", "", "", "">>, <<"TYPE", "PA", "X", "X", "X", "X">>,
               <<"DATA", "HEADING", "LOCA", "LOCA_TYPE", "OTHER", "">> >>)>> }

Files ==
  { s \o t \o l \o g \o d :
      s \in Support_variants, t \in TRAN_variants, l \in LOCA_variants,
      g \in GEOL_variants, d \in DICT_variants }

\* AGS4_to_dataframe(file) then tables['DICT']: the file as a dictionary source
AsSource(tbls) ==
  IF "DICT" \in Keys(tbls) THEN [has_DICT |-> TRUE, DICT |-> tbls.rows["DICT"]]
  ELSE [has_DICT |-> FALSE, DICT |-> <<>>]

\* the standard dictionary file, or a file without a DICT group in its place
StdSources == {[has_DICT |-> TRUE, DICT |-> StdDict], [has_DICT |-> FALSE, DICT |-> <<>>]}

----------------------------------------------------------------------------
(* Dictionary sources of the merger: up to MaxDictRows rows, dealt in order *)
(* to up to MaxFiles files.                                                 *)

DictRows ==
  { Entry("DATA", "HEADING", "LOCA", "LOCA_ID", "KEY", ""),
    Entry("DATA", "HEADING", "LOCA", "LOCA_ID", "OTHER", ""),
    Entry("DATA", "HEADING", "LOCA", "LOCA_ID", "KEY", "PROJ"),
    Entry("DATA", "GROUP", "LOCA", "LOCA_ID", "KEY", ""),
    Entry("DATA", "HEADING", "LOCA", "LOCA_TYPE", "OTHER", "") }

\* the ways of cutting a sequence of len rows into n consecutive files
Deals(len, n) ==
  {f \in [1..len -> 1..n] : \A i \in 1..len : \A j \in 1..len : i <= j => f[i] <= f[j]}

DealOut(rows, deal, n, empty_has) ==
  [k \in 1..n |->
     LET mine == SelectSeq([i \in 1..Len(rows) |-> <<rows[i], deal[i]>>], LAMBDA p : p[2] = k)
     IN  [has_DICT |-> mine # <<>> \/ empty_has, DICT |-> [i \in 1..Len(mine) |-> mine[i][1]]]]

SourceLists ==
  UNION { UNION { {DealOut(rows, deal, n, empty_has) :
                     deal \in Deals(Len(rows), n), empty_has \in BOOLEAN} :
                  n \in 1..MaxFiles } :
          rows \in SeqsUpTo(DictRows, MaxDictRows) }

----------------------------------------------------------------------------
(* Enumerated parent and child tables for the key-field rules: LOCA with    *)
(* key LOCA_ID, and its child GEOL with keys LOCA_ID and GEOL_TOP.          *)

RowDescriptors == {"UNIT", "TYPE", "DATA"}

ParentTables ==
  { Group("LOCA", <<"HEADING", "LOCA_ID">>, rv) :
      rv \in SeqsUpTo({<<d, id>> : d \in RowDescriptors, id \in {"a", "b"}}, MaxParentRows) }

ChildTables ==
  { Group("GEOL", GEOL_cols, rv) :
      rv \in SeqsUpTo({<<d, id, top>> : d \in RowDescriptors, id \in {"a", "b"}, top \in {"1", "2"}},
                      MaxRows) }

----------------------------------------------------------------------------
(* Inputs of the required-field rule: group LOCA with one or both of its    *)
(* headings, each tagged or not as required, and rows whose cells are       *)
(* filled, empty or a single blank.                                         *)

StatusTags == {"", "REQUIRED", "KEY+REQUIRED"}

RequiredDicts ==
  { << Entry("DATA", "GROUP", "LOCA", "", "", ""),
       Entry("DATA", "HEADING", "LOCA", "LOCA_ID", s1, ""),
       Entry("DATA", "HEADING", "LOCA", "LOCA_TYPE", s2, "") >> :
      s1 \in StatusTags, s2 \in StatusTags }

CellValues == {"", " ", "x"}

RequiredTables ==
  { Group("LOCA", LOCA_cols, rv) :
      rv \in SeqsUpTo({<<d, id, ty>> : d \in {"UNIT", "DATA"}, id \in CellValues, ty \in CellValues},
                      MaxRows) }
  \cup
  { Group("LOCA", <<"HEADING", "LOCA_ID">>, rv) :
      rv \in SeqsUpTo({<<d, id>> : d \in {"UNIT", "DATA"}, id \in CellValues}, MaxRows) }

----------------------------------------------------------------------------
(* Inputs of the heading rules: a dictionary of up to MaxSchemaRows rows    *)
(* and a file whose group LOCA has up to MaxHeadings headings, in any       *)
(* order, followed or not by a group GEOL.                                  *)

SchemaEntries ==
  { Entry("DATA", "GROUP", "LOCA", "", "", ""),
    Entry("DATA", "HEADING", "LOCA", "LOCA_ID", "KEY", ""),
    Entry("DATA", "HEADING", "LOCA", "LOCA_TYPE", "", ""),
    Entry("DATA", "HEADING", "LOCA", "GEOL_TOP", "", ""),
    Entry("DATA", "HEADING", "GEOL", "LOCA_ID", "KEY", ""),
    Entry("DATA", "HEADING", "GEOL", "GEOL_TOP", "KEY", "") }

SchemaDicts == SeqsUpTo(SchemaEntries, MaxSchemaRows) \ {<<>>}

HeadingNames == {"LOCA_ID", "LOCA_TYPE", "GEOL_TOP"}

HeadingFiles ==
  { <<Group("LOCA", <<"HEADING">> \o hs, <<>>)>> \o g :
      hs \in SeqsUpTo(HeadingNames, MaxHeadings),
      g \in {<<>>, <<Group("GEOL", GEOL_cols, <<>>)>>} }

----------------------------------------------------------------------------
(* Actions: one per validator, and one for the merger.  A validator runs on *)
(* the shared log while the process lives: sys.exit() (halted) and an       *)
(* uncaught exception (fault) both end it.                                  *)

Running == ~halted /\ fault = "none"

Invoke(call, r) ==
  /\ Running
  /\ ags_errors' = r.errs
  /\ fault' = r.exc
  /\ last' = [call EXCEPT !.pre = ags_errors]
  /\ ncalls' = ncalls + 1
  /\ UNCHANGED <<tables, headings, input_files, dictionary, halted, hashseed, first_run, defaults>>

TableCall(op) == [NoCall EXCEPT !.op = op]

Combine ==
  /\ Running
  /\ ~dictionary.built
  /\ LET r == combine_DICT_tables(input_files)
     IN  /\ halted' = r.exit
         /\ dictionary' = [built |-> ~r.exit, DICT |-> r.DICT]
  /\ last' = [TableCall("combine_DICT_tables") EXCEPT !.pre = ags_errors]
  /\ UNCHANGED <<ags_errors, tables, headings, input_files, fault, ncalls, hashseed, first_run,
               defaults>>

\* lines for rule_1 and rule_2a: a well-formed one, one with a non-ASCII character, one
\* that lacks the terminator
DefaultLines ==
  { <<Q, "DATA", Q, ",", Q, "x", Q, "\r", "\n">>,
    <<Q, "DATA", Q, ",", Q, "\\u00e9", Q, "\r", "\n">>,
    <<Q, "DATA", Q, ",", Q, "x", Q>> }

\* heading names as they stand on a HEADING line
NameFields ==
  { <<"LOCA", "_", "ID">>, <<"LOC", "_", "ID">>, <<"LOCA", "_", "LONGNAME">>,
    <<"ABCD", "_", "X", "_", "LONGTAIL">>, <<"SPEC">>, <<"LOCAID">> }

NameLines ==
  { <<Q, d, Q>> \o Flatten([i \in 1..Len(fs) |-> <<",", Q>> \o fs[i] \o <<Q>>]) \o <<"\r", "\n">> :
      d \in {"HEADING", "DATA"}, fs \in SeqsUpTo(NameFields, MaxFields) }

Rule19b ==
  \E line \in NameLines, group \in LineGroups :
    Invoke([NoCall EXCEPT !.op = "rule_19b", !.line = line, !.line_number = ncalls + 1,
                          !.group = group],
           rule_19b(line, ncalls + 1, group, ags_errors))

Rule4bOn(lines, groups, rows) ==
  \E line \in lines, group \in groups, hdgs \in rows :
    Invoke([op |-> "rule_4b", line |-> line, line_number |-> ncalls + 1, group |-> group,
            hdgs |-> hdgs, pre |-> EmptyLog],
           rule_4b(line, ncalls + 1, group, hdgs, ags_errors))

Rule4b == Rule4bOn(Lines, LineGroups, HeadingRows)

\* a direct call of the helper
AddErrorMsg ==
  \E rule \in {"Rule 1", "Rule 9"} :
    Invoke(TableCall("add_error_msg"),
           Ok(add_error_msg(ags_errors, rule, ToString(ncalls + 1), "", "Has Non-ASCII character(s).")))

Rule2 == Invoke(TableCall("rule_2"), rule_2(tables, headings, ags_errors))

Rule2b == Invoke(TableCall("rule_2b"), rule_2b(tables, headings, ags_errors))

Rule7 ==
  /\ dictionary.built
  /\ Invoke(TableCall("rule_7"), rule_7(headings, dictionary.DICT, ags_errors))

Rule9 ==
  /\ dictionary.built
  /\ Invoke(TableCall("rule_9"), rule_9(headings, dictionary.DICT, ags_errors))

Rule10a ==
  /\ dictionary.built
  /\ Invoke(TableCall("rule_10a"), rule_10a(tables, headings, dictionary.DICT, ags_errors))

Rule10b ==
  /\ dictionary.built
  /\ Invoke(TableCall("rule_10b"), rule_10b(tables, headings, dictionary.DICT, ags_errors, hashseed))

Rule10c ==
  /\ dictionary.built
  /\ \E on_empty \in {"IndexError", "ValueError"} :
       Invoke(TableCall("rule_10c"),
              rule_10c(tables, headings, dictionary.DICT, ags_errors, on_empty))

Rule13 == Invoke(TableCall("rule_13"), rule_13(tables, headings, ags_errors))

Rule14 == Invoke(TableCall("rule_14"), rule_14(tables, headings, ags_errors))

Rule15 == Invoke(TableCall("rule_15"), rule_15(tables, headings, ags_errors, hashseed))

Rule16 ==
  /\ dictionary.built
  /\ Invoke(TableCall("rule_16"), rule_16(tables, headings, dictionary.DICT, ags_errors, hashseed))

Rule17 ==
  /\ dictionary.built
  /\ Invoke(TableCall("rule_17"), rule_17(tables, headings, ags_errors, hashseed))

Rule18 == Invoke(TableCall("rule_18"), rule_18(tables, headings, ags_errors))

Rule19c ==
  /\ dictionary.built
  /\ Invoke(TableCall("rule_19c"), rule_19c(tables, headings, dictionary.DICT, ags_errors))

\* A call that leaves the ags_errors argument out: the validator works on the dictionary
\* its default is bound to, and hands that same object back.
InvokeDefault(f, call, r) ==
  /\ Running
  /\ ags_errors' = r.errs
  /\ defaults' = [defaults EXCEPT ![f] = r.errs]
  /\ fault' = r.exc
  /\ last' = [call EXCEPT !.pre = defaults[f]]
  /\ ncalls' = ncalls + 1
  /\ UNCHANGED <<tables, headings, input_files, dictionary, halted, hashseed, first_run>>

LineCall(op, line, line_number) ==
  [NoCall EXCEPT !.op = op, !.line = line, !.line_number = line_number]

Rule1Default ==
  \E line \in DefaultLines :
    InvokeDefault("rule_1", LineCall("rule_1", line, ncalls + 1),
                  rule_1(line, ncalls + 1, defaults["rule_1"]))

Rule2aDefault ==
  \E line \in DefaultLines :
    InvokeDefault("rule_2a", LineCall("rule_2a", line, ncalls + 1),
                  rule_2a(line, ncalls + 1, defaults["rule_2a"]))

Rule10aDefault ==
  /\ dictionary.built
  /\ InvokeDefault("rule_10a", TableCall("rule_10a"),
                   rule_10a(tables, headings, dictionary.DICT, defaults["rule_10a"]))

----------------------------------------------------------------------------
(* Specifications *)

\* A fresh process with an empty log and nothing parsed yet.
Fresh ==
  /\ ags_errors = EmptyLog
  /\ halted = FALSE
  /\ fault = "none"
  /\ last = NoCall
  /\ ncalls = 0
  /\ first_run = NoRun
  /\ defaults = NoDefaults

\* The line validator rule_4b on arbitrary lines, groups and heading rows.
InitLines ==
  /\ Fresh
  /\ tables = NoTables
  /\ headings = NoHeadings
  /\ input_files = <<>>
  /\ dictionary = NoDictionary
  /\ hashseed = "seedA"

NextLines == ncalls < MaxLineCalls /\ Rule4b

SpecLines == InitLines /\ [][NextLines]_vars

----------------------------------------------------------------------------
(* The general machine: a file, its dictionary sources, and validators      *)
(* called in any order on one log once the process is up.                   *)

Init ==
  /\ Fresh
  /\ \E f \in Files : tables = MkTables(f) /\ headings = MkHeadings(f)
  /\ \E std \in StdSources : input_files = <<std, AsSource(tables)>>
  /\ dictionary = NoDictionary
  /\ hashseed \in HashSeeds

\* a DATA line, checked under group LOCA before any heading row was seen
SampleLines == {<<Q, "DATA", Q, ",", Q, "x", Q, "\r", "\n">>}

CanCall == ncalls < MaxCalls

Next ==
  \/ Combine
  \/ CanCall /\ AddErrorMsg
  \/ CanCall /\ Rule4bOn(SampleLines, {"LOCA"}, {<<>>})
  \/ CanCall /\ Rule2
  \/ CanCall /\ Rule2b
  \/ CanCall /\ Rule7
  \/ CanCall /\ Rule9
  \/ CanCall /\ Rule10a
  \/ CanCall /\ Rule10b
  \/ CanCall /\ Rule10c
  \/ CanCall /\ Rule13
  \/ CanCall /\ Rule14
  \/ CanCall /\ Rule15
  \/ CanCall /\ Rule16
  \/ CanCall /\ Rule17
  \/ CanCall /\ Rule18
  \/ CanCall /\ Rule19c

Spec == Init /\ [][Next]_vars

----------------------------------------------------------------------------
(* The merger on enumerated sources, followed by one schema-dependent rule. *)

FirstCall == ncalls = 0

InitMerge ==
  /\ Fresh
  /\ \E f \in {l \o g : l \in LOCA_variants, g \in GEOL_variants} :
        /\ Len(f[1].rows) > 1
        /\ tables = MkTables(f)
        /\ headings = MkHeadings(f)
  /\ input_files \in SourceLists
  /\ dictionary = NoDictionary
  /\ hashseed = "seedA"

NextMerge ==
  \/ Combine
  \/ FirstCall /\ AddErrorMsg
  \/ FirstCall /\ Rule7
  \/ FirstCall /\ Rule9
  \/ FirstCall /\ Rule10a
  \/ FirstCall /\ Rule10b
  \/ FirstCall /\ Rule10c
  \/ FirstCall /\ Rule16
  \/ FirstCall /\ Rule17
  \/ FirstCall /\ Rule19c

SpecMerge == InitMerge /\ [][NextMerge]_vars

----------------------------------------------------------------------------
(* The key-field rules on enumerated parent and child tables, against the   *)
(* standard dictionary.                                                     *)

InitKeys ==
  /\ Fresh
  /\ \E l \in ParentTables, g \in ChildTables :
        tables = MkTables(<<l, g>>) /\ headings = MkHeadings(<<l, g>>)
  /\ input_files = <<[has_DICT |-> TRUE, DICT |-> StdDict]>>
  /\ dictionary = [built |-> TRUE, DICT |-> combine_DICT_tables(input_files).DICT]
  /\ hashseed = "seedA"

NextKeys ==
  \/ FirstCall /\ Rule10a
  \/ FirstCall /\ Rule10c

SpecKeys == InitKeys /\ [][NextKeys]_vars

----------------------------------------------------------------------------
(* The required-field rule on enumerated tables and dictionaries.           *)

InitRequired ==
  /\ Fresh
  /\ \E l \in RequiredTables : tables = MkTables(<<l>>) /\ headings = MkHeadings(<<l>>)
  /\ \E d \in RequiredDicts : input_files = <<[has_DICT |-> TRUE, DICT |-> d]>>
  /\ dictionary = [built |-> TRUE, DICT |-> combine_DICT_tables(input_files).DICT]
  /\ hashseed \in HashSeeds

NextRequired == FirstCall /\ Rule10b

SpecRequired == InitRequired /\ [][NextRequired]_vars

----------------------------------------------------------------------------
(* The heading rules on enumerated heading rows and dictionaries.           *)

InitHeadings ==
  /\ Fresh
  /\ \E f \in HeadingFiles : tables = MkTables(f) /\ headings = MkHeadings(f)
  /\ \E d \in SchemaDicts : input_files = <<[has_DICT |-> TRUE, DICT |-> d]>>
  /\ dictionary = [built |-> TRUE, DICT |-> combine_DICT_tables(input_files).DICT]
  /\ hashseed = "seedA"

NextHeadings ==
  \/ FirstCall /\ Rule7
  \/ FirstCall /\ Rule19c

SpecHeadings == InitHeadings /\ [][NextHeadings]_vars

----------------------------------------------------------------------------
(* The heading-name rule rule_19b on HEADING and DATA lines.                *)

NextNames == FirstCall /\ Rule19b

SpecNames == InitLines /\ [][NextNames]_vars

----------------------------------------------------------------------------
(* Validators called with the log argument left out, one call after another *)
(* in one process.                                                          *)

MaxDefaultCalls == 2   \* calls made without a log

InitDefaults ==
  /\ Fresh
  /\ \E l \in ParentTables, g \in ChildTables :
        tables = MkTables(<<l, g>>) /\ headings = MkHeadings(<<l, g>>)
  /\ input_files = <<[has_DICT |-> TRUE, DICT |-> StdDict]>>
  /\ dictionary = [built |-> TRUE, DICT |-> combine_DICT_tables(input_files).DICT]
  /\ hashseed = "seedA"

CanCallDefault == ncalls < MaxDefaultCalls

NextDefaults ==
  \/ CanCallDefault /\ Rule1Default
  \/ CanCallDefault /\ Rule2aDefault
  \/ CanCallDefault /\ Rule10aDefault

SpecDefaults == InitDefaults /\ [][NextDefaults]_vars

----------------------------------------------------------------------------
(* Two runs of the table rules, in the order of the source file, on the     *)
(* same parsed file and merged dictionary; the second run in a new process  *)
(* with a fresh log.                                                        *)

RuleOrder ==
  << "rule_2", "rule_2b", "rule_7", "rule_9", "rule_10a", "rule_10b", "rule_10c",
     "rule_13", "rule_14", "rule_15", "rule_16", "rule_17", "rule_18", "rule_19c" >>

Due(op) == ncalls < Len(RuleOrder) /\ RuleOrder[ncalls + 1] = op

RunComplete == ncalls = Len(RuleOrder) /\ fault = "none"

NewProcess ==
  /\ RunComplete
  /\ ~first_run.done
  /\ first_run' = [done |-> TRUE, errs |-> ags_errors]
  /\ ags_errors' = EmptyLog
  /\ ncalls' = 0
  /\ last' = NoCall
  /\ hashseed' \in HashSeeds
  /\ UNCHANGED <<tables, headings, input_files, dictionary, halted, fault, defaults>>

InitRuns ==
  /\ Fresh
  /\ \E f \in Files : tables = MkTables(f) /\ headings = MkHeadings(f)
  /\ input_files = <<[has_DICT |-> TRUE, DICT |-> StdDict], AsSource(tables)>>
  /\ dictionary = [built |-> TRUE, DICT |-> combine_DICT_tables(input_files).DICT]
  /\ hashseed \in HashSeeds

NextRuns ==
  \/ Due("rule_2") /\ Rule2
  \/ Due("rule_2b") /\ Rule2b
  \/ Due("rule_7") /\ Rule7
  \/ Due("rule_9") /\ Rule9
  \/ Due("rule_10a") /\ Rule10a
  \/ Due("rule_10b") /\ Rule10b
  \/ Due("rule_10c") /\ Rule10c
  \/ Due("rule_13") /\ Rule13
  \/ Due("rule_14") /\ Rule14
  \/ Due("rule_15") /\ Rule15
  \/ Due("rule_16") /\ Rule16
  \/ Due("rule_17") /\ Rule17
  \/ Due("rule_18") /\ Rule18
  \/ Due("rule_19c") /\ Rule19c
  \/ NewProcess

SpecRuns == InitRuns /\ [][NextRuns]_vars

----------------------------------------------------------------------------
(* Properties *)

\* the records a log holds under a rule identifier
SeqOf(log, rule) == IF rule \in DOMAIN log THEN log[rule] ELSE <<>>

\* post is pre with the records recs appended under rule, and nothing else changed
AppendedOnly(pre, post, rule, recs) ==
  /\ DOMAIN post = DOMAIN pre \cup (IF recs = <<>> THEN {} ELSE {rule})
  /\ \A r \in DOMAIN post : post[r] = SeqOf(pre, r) \o (IF r = rule THEN recs ELSE <<>>)

\* the descriptor of a raw line: its first token that is not a quote
LineDescriptor(line) ==
  LET rest == SelectSeq(line, LAMBDA c : c # Q) IN IF rest = <<>> THEN "" ELSE rest[1]

\* one more than the number of '","' delimiters in the line
DelimitedFieldCount(line) ==
  1 + Cardinality({i \in 1..(Len(line) - 2) : line[i] = Q /\ line[i + 1] = "," /\ line[i + 2] = Q})

DataLike(line) == LineDescriptor(line) \in {"UNIT", "TYPE", "DATA"}

\* C6: against a heading row of N >= 1 fields, rule_4b appends exactly one record, with
\* the line's number and the current group, for a UNIT, TYPE or DATA line whose number of
\* '","'-delimited fields differs from N, and appends nothing for a line with N fields or
\* for a GROUP or HEADING line.
C6_FieldCountMatch ==
  (last.op = "rule_4b" /\ Len(last.hdgs) >= 1) =>
     IF DataLike(last.line) /\ DelimitedFieldCount(last.line) # Len(last.hdgs)
     THEN AppendedOnly(last.pre, ags_errors, "Rule 4b",
            <<Record(ToString(last.line_number), last.group, FieldCountMismatch)>>)
     ELSE ags_errors = last.pre

C6_Witness ==
  /\ last.op = "rule_4b"
  /\ Len(last.hdgs) >= 1
  /\ LineDescriptor(last.line) = "DATA"
  /\ DelimitedFieldCount(last.line) = 2
  /\ Len(last.hdgs) = 3
  /\ Len(SeqOf(ags_errors, "Rule 4b")) = Len(SeqOf(last.pre, "Rule 4b")) + 1

\* the "Headings row missing." records a log holds for a group
MissingCount(log, group) ==
  Cardinality({i \in 1..Len(SeqOf(log, "Rule 4b")) :
                 SeqOf(log, "Rule 4b")[i].group = group
                 /\ SeqOf(log, "Rule 4b")[i].desc = HeadingsRowMissing})

\* C7: over any rule_4b calls on one log there is at most one "Headings row missing."
\* record per group, there is exactly one for the group of a UNIT, TYPE or DATA line just
\* checked with no heading row seen, and the count for a group never goes down (so a group
\* once reported keeps its one record).
C7_MissingOncePerGroup ==
  /\ [](\A g \in LineGroups : MissingCount(ags_errors, g) <= 1)
  /\ []((last.op = "rule_4b" /\ last.hdgs = <<>> /\ DataLike(last.line))
          => MissingCount(ags_errors, last.group) = 1)
  /\ [][\A g \in LineGroups : MissingCount(ags_errors', g) >= MissingCount(ags_errors, g)]_vars

C7_Witness ==
  /\ last.op = "rule_4b"
  /\ last.hdgs = <<>>
  /\ DataLike(last.line)
  /\ MissingCount(last.pre, last.group) = 1
  /\ ags_errors = last.pre

\* C1: whatever is called on the shared log, each rule identifier's records before the
\* call are a prefix of its records after it: nothing is removed, changed or reordered and
\* no rule identifier disappears.
C1_AppendOnly ==
  [][\A r \in DOMAIN ags_errors :
       r \in DOMAIN ags_errors' /\ IsPrefix(ags_errors[r], ags_errors'[r])]_vars

C1_Witness ==
  \E r \in DOMAIN last.pre :
    /\ Len(last.pre[r]) >= 1
    /\ r \in DOMAIN ags_errors
    /\ Len(ags_errors[r]) > Len(last.pre[r])

TableRuleNames ==
  { "rule_2", "rule_2b", "rule_7", "rule_9", "rule_10a", "rule_10b", "rule_10c", "rule_13",
    "rule_14", "rule_15", "rule_16", "rule_17", "rule_18", "rule_19c" }

\* C3: a table rule called with a non-empty dictionary returns the log; it never leaves
\* an exception uncaught.
C3_NoTableRuleAborts ==
  (last.op \in TableRuleNames /\ dictionary.built /\ dictionary.DICT # <<>>) => fault = "none"

Rule18Message ==
  "DICT table not found. See error log under Rule 9 for a list of non-standard headings that need to be defined in a DICT table."

\* C10: rule_18 appends exactly one record when the log it is given already holds a
\* Rule 9 record and the file has no DICT group, and appends nothing otherwise, wherever
\* in the order of calls it comes.
C10_DictionaryPresence ==
  last.op = "rule_18" =>
     IF "DICT" \notin Keys(tables) /\ Len(SeqOf(last.pre, "Rule 9")) >= 1
     THEN AppendedOnly(last.pre, ags_errors, "Rule 18", <<Record("-", "DICT", Rule18Message)>>)
     ELSE ags_errors = last.pre

\* rule_18 called after rule_9 had reported a heading of group LOCA
C10_Witness ==
  /\ last.op = "rule_18"
  /\ "DICT" \notin Keys(tables)
  /\ \E i \in 1..Len(SeqOf(last.pre, "Rule 9")) : last.pre["Rule 9"][i].group = "LOCA"
  /\ Len(SeqOf(ags_errors, "Rule 18")) = 1

\* no source has a DICT table with a row in it
SourcesEmpty(files) == \A i \in 1..Len(files) : ~files[i].has_DICT \/ files[i].DICT = <<>>

SchemaRuleNames ==
  {"rule_7", "rule_9", "rule_10a", "rule_10b", "rule_10c", "rule_16", "rule_17", "rule_19c"}

\* C9: the merger ends the process exactly when no source has a dictionary row, and
\* otherwise returns a dictionary; it writes nothing to the log; nothing runs after the
\* process has ended, and a rule that takes the dictionary only ever gets a non-empty one.
C9_EmptyMergeHalts ==
  /\ last.op = "combine_DICT_tables" =>
        /\ halted = SourcesEmpty(input_files)
        /\ dictionary.built = ~SourcesEmpty(input_files)
        /\ ags_errors = last.pre
  /\ halted => ~dictionary.built /\ last.op = "combine_DICT_tables"
  /\ last.op \in SchemaRuleNames => dictionary.built /\ dictionary.DICT # <<>>

C9_Witness ==
  /\ halted
  /\ SourcesEmpty(input_files)
  /\ Len(input_files) > 1
  /\ \E i \in 1..Len(input_files) : input_files[i].has_DICT
  /\ ags_errors # EmptyLog

\* every dictionary row of the sources, in input order
SourceRows(files) ==
  Flatten([i \in 1..Len(files) |-> IF files[i].has_DICT THEN files[i].DICT ELSE <<>>])

\* the merged dictionary has exactly one row for each value of key(row) that occurs in the
\* sources, and that row is the earliest one of the sources with that value
OnePerKeyEarliest(files, merged, key(_)) ==
  LET rows == SourceRows(files)
  IN  /\ \A i \in 1..Len(merged) : \E j \in 1..Len(rows) : rows[j] = merged[i]
      /\ \A j \in 1..Len(rows) :
           /\ Cardinality({i \in 1..Len(merged) : key(merged[i]) = key(rows[j])}) = 1
           /\ \E i \in 1..Len(merged) :
                /\ key(merged[i]) = key(rows[j])
                /\ merged[i] = rows[CHOOSE k \in 1..Len(rows) :
                                      /\ key(rows[k]) = key(rows[j])
                                      /\ \A m \in 1..(k - 1) : key(rows[m]) # key(rows[j])]

\* C8 as claimed: one entry per (group, heading) pair, the earliest source's, whatever
\* else a later entry for the pair differs in.
C8_OnePerGroupHeading ==
  (last.op = "combine_DICT_tables" /\ dictionary.built) =>
     OnePerKeyEarliest(input_files, dictionary.DICT, DictKey_GroupHeading)

RowKey(e) == <<e.HEADING, e.DICT_TYPE, e.DICT_GRP, e.DICT_HDNG>>

\* C8 as amended: one row per (row descriptor, entry type, group, heading), the earliest
\* source's, whatever status tags or parent group a later row gives.
C8_OnePerRowKey ==
  (last.op = "combine_DICT_tables" /\ dictionary.built) =>
     OnePerKeyEarliest(input_files, dictionary.DICT, RowKey)

\* two sources give LOCA_ID of LOCA different status tags, and the first one's row is kept
C8_Witness ==
  /\ last.op = "combine_DICT_tables"
  /\ dictionary.built
  /\ Len(input_files) = 2
  /\ input_files[1].DICT = <<Entry("DATA", "HEADING", "LOCA", "LOCA_ID", "KEY", "")>>
  /\ input_files[2].DICT = <<Entry("DATA", "HEADING", "LOCA", "LOCA_ID", "OTHER", "")>>
  /\ dictionary.DICT = input_files[1].DICT

\* the rows of a table, in order, that are DATA rows sharing their key values with
\* another DATA row
DuplicateDataRows(t, keys) ==
  SelectSeq(t, LAMBDA r :
    /\ r["HEADING"] = "DATA"
    /\ Cardinality({j \in 1..Len(t) : t[j]["HEADING"] = "DATA"
                                      /\ \A k \in Range(keys) : t[j][k] = r[k]}) > 1)

DuplicateRecords(group, t, keys) ==
  [i \in 1..Len(DuplicateDataRows(t, keys)) |->
     Record("-", group, "Duplicate key field combination: "
                        \o Join(<<"DATA">> \o Cells(DuplicateDataRows(t, keys)[i], keys)))]

\* C4: in a file whose groups have all their key headings, rule_10a reports exactly the
\* DATA rows that share (row type, key values) with another DATA row, group by group and
\* row by row, and no UNIT or TYPE row.
C4_FlagsDuplicateDataRows ==
  last.op = "rule_10a" =>
     AppendedOnly(last.pre, ags_errors, "Rule 10a",
       DuplicateRecords("LOCA", tables.rows["LOCA"], <<"LOCA_ID">>)
       \o DuplicateRecords("GEOL", tables.rows["GEOL"], <<"LOCA_ID", "GEOL_TOP">>))

\* the DATA rows of the child, in order, whose parent key values are those of no DATA row
\* of the parent
UnmatchedDataRows(child, parent, keys) ==
  SelectSeq(child, LAMBDA r :
    /\ r["HEADING"] = "DATA"
    /\ ~\E j \in 1..Len(parent) :
          parent[j]["HEADING"] = "DATA" /\ \A k \in Range(keys) : parent[j][k] = r[k])

UnmatchedRecords(group, parent_group, child, parent, keys) ==
  [i \in 1..Len(UnmatchedDataRows(child, parent, keys)) |->
     Record("-", group, "Parent entry for line not found in " \o parent_group \o ": "
                        \o Join(Cells(UnmatchedDataRows(child, parent, keys)[i], keys)))]

\* C5: for the child group GEOL of LOCA, rule_10c appends one record, citing the key
\* values, for each DATA row of GEOL whose LOCA_ID is that of no DATA row of LOCA, and
\* no other record (under whichever rule identifier it files them).
C5_ReportsUnmatchedDataRows ==
  last.op = "rule_10c" =>
     \E rule \in {"Rule 10a", "Rule 10c"} :
        AppendedOnly(last.pre, ags_errors, rule,
          UnmatchedRecords("GEOL", "LOCA", tables.rows["GEOL"], tables.rows["LOCA"], <<"LOCA_ID">>))

\* C11: a validator called without a log returns only what that call itself appended,
\* that is, what it would have returned on an empty log.
C11_NoSharedDefault ==
  /\ last.op = "rule_1" => ags_errors = rule_1(last.line, last.line_number, EmptyLog).errs
  /\ last.op = "rule_2a" => ags_errors = rule_2a(last.line, last.line_number, EmptyLog).errs
  /\ last.op = "rule_10a" =>
        ags_errors = rule_10a(tables, headings, dictionary.DICT, EmptyLog).errs

\* the texts "DATA|key values" of the key tuples that two or more DATA rows share
DuplicateKeyTexts(t, keys) ==
  {Join(<<"DATA">> \o Cells(DuplicateDataRows(t, keys)[i], keys)) :
     i \in 1..Len(DuplicateDataRows(t, keys))}

CountRecords(log, rule, group, desc) ==
  Cardinality({i \in 1..Len(SeqOf(log, rule)) :
                 log[rule][i].group = group /\ log[rule][i].desc = desc})

\* C12: rule_10a reports each set of DATA rows that share their key values in one record
\* holding the pipe-joined key values, not one record for each row of the set.
C12_OneRecordPerDuplicateSet ==
  last.op = "rule_10a" =>
     \A g \in {<<"LOCA", <<"LOCA_ID">>>>, <<"GEOL", <<"LOCA_ID", "GEOL_TOP">>>>} :
        \A txt \in DuplicateKeyTexts(tables.rows[g[1]], g[2]) :
           CountRecords(ags_errors, "Rule 10a", g[1],
                        "Duplicate key field combination: " \o txt) = 1

\* the required headings of a group that the file has
PresentRequired(dict, hdgs, group) ==
  Range(RequiredFields(dict, group)) \cap Range(hdgs.cols[group])

\* the DATA rows that leave a present required heading empty or blank
OffendingRows(t, required) ==
  {i \in 1..Len(t) : t[i]["HEADING"] = "DATA" /\ \E h \in required : t[i][h] \in {"", " "}}

\* the Rule 10b records that are about a row, not about a heading that is missing
EmptyFieldRecords(log, group) ==
  SelectSeq(SeqOf(log, "Rule 10b"), LAMBDA r :
    r.group = group /\ r.desc \notin {"Required field " \o h \o " not found." : h \in Range(LOCA_cols)})

\* C13: rule_10b appends one "empty required field" record for each DATA row that leaves
\* at least one present required heading blank, however many it leaves blank, none for
\* any other row, and leaves the tables as they were.
C13_OneRecordPerOffendingRow ==
  /\ [](last.op = "rule_10b" =>
          Len(EmptyFieldRecords(ags_errors, "LOCA"))
            = Cardinality(OffendingRows(tables.rows["LOCA"],
                                        PresentRequired(dictionary.DICT, headings, "LOCA"))))
  /\ [][last'.op = "rule_10b" => tables' = tables]_vars

\* the headings the dictionary declares for a group, in dictionary order
Declared(dict, key) ==
  [i \in 1..Len(SelectSeq(dict, LAMBDA e : e.DICT_GRP = key)) |->
     SelectSeq(dict, LAMBDA e : e.DICT_GRP = key)[i].DICT_HDNG]

\* the record rule_7 owes a group, if any
Rule7Due(hdgs, dict, key) ==
  LET actual == SubSeq(hdgs.cols[key], 2, Len(hdgs.cols[key]))
      declared == Declared(dict, key)
  IN  IF \E i \in 1..Len(actual) : actual[i] \notin Range(declared)
      THEN <<Record("-", key, Rule7Unchecked)>>
      ELSE IF SelectSeq(declared, LAMBDA h : h \in Range(actual)) # actual
      THEN <<Record("-", key, Rule7Order(key))>>
      ELSE <<>>

\* C14: for each group of the heading index, in order, rule_7 appends one Rule 7 record if
\* an actual heading is not declared for the group ("could not be checked"), one if all
\* are declared and the declared list restricted to the actual headings differs from the
\* actual sequence (order violation), and none otherwise.
C14_HeadingOrder ==
  last.op = "rule_7" =>
     AppendedOnly(last.pre, ags_errors, "Rule 7",
                  Flatten([i \in 1..Len(headings.order) |->
                             Rule7Due(headings, dictionary.DICT, headings.order[i])]))

\* LOCA has both its headings declared, in the other order; GEOL has one that is not
\* declared: one record of each kind
C14_Witness ==
  /\ last.op = "rule_7"
  /\ headings.order = <<"LOCA", "GEOL">>
  /\ headings.cols["LOCA"] = <<"HEADING", "LOCA_TYPE", "LOCA_ID">>
  /\ Declared(dictionary.DICT, "LOCA") = <<"LOCA_ID", "LOCA_TYPE">>
  /\ SeqOf(ags_errors, "Rule 7")
       = <<Record("-", "LOCA", Rule7Order("LOCA")), Record("-", "GEOL", Rule7Unchecked)>>

\* the group-name prefix of the heading names of the model
HeadingPrefix(h) == IF h \in {"LOCA_ID", "LOCA_TYPE"} THEN "LOCA" ELSE "GEOL"

\* the headings of a group, in order, that neither carry the group's name nor are declared
\* under another group
Rule19cDue(hdgs, dict, key) ==
  LET actual == SubSeq(hdgs.cols[key], 2, Len(hdgs.cols[key]))
      owed == SelectSeq(actual, LAMBDA h :
                /\ HeadingPrefix(h) # key
                /\ ~\E i \in 1..Len(dict) : dict[i].DICT_HDNG = h /\ dict[i].DICT_GRP # key)
  IN  [i \in 1..Len(owed) |->
         Record("-", key, owed[i] \o " does not start with the name of this group, nor is it defined in another group.")]

\* C16: rule_19c appends one record for each heading that is not prefixed by its group's
\* name, unless the dictionary declares the heading under a group other than this one; a
\* heading prefixed by its own group's name gets none.
C16_DeclaredInAnotherGroup ==
  last.op = "rule_19c" =>
     AppendedOnly(last.pre, ags_errors, "Rule 19b",
                  Flatten([i \in 1..Len(headings.order) |->
                             Rule19cDue(headings, dictionary.DICT, headings.order[i])]))

\* C17: a call of rule_10c changes the log only under "Rule 10c": the records of every
\* other rule identifier, those of "Rule 10a" among them, are what they were before.
C17_WritesOnlyRule10c ==
  last.op = "rule_10c" =>
     \A r \in (DOMAIN ags_errors \cup DOMAIN last.pre) \ {"Rule 10c"} :
        SeqOf(ags_errors, r) = SeqOf(last.pre, r)

\* position of the first underscore of a field, 0 if it has none
FirstUnderscore(item) ==
  IF "_" \in Range(item) THEN CHOOSE k \in 1..Len(item) :
                                 item[k] = "_" /\ \A j \in 1..(k - 1) : item[j] # "_"
  ELSE 0

\* the record a field of a HEADING line is owed when it is split at its first underscore only
Rule19bDue(item, line_number, group) ==
  LET k == FirstUnderscore(item)
  IN  IF k = 0
      THEN <<Record(ToString(line_number), group, Rule19bNoUnderscore(item))>>
      ELSE IF Len(Text(SubSeq(item, 1, k - 1))) # 4 \/ Len(Text(SubSeq(item, k + 1, Len(item)))) > 4
      THEN <<Record(ToString(line_number), group, Rule19bLengths(item))>>
      ELSE <<>>

\* C15: on a HEADING line rule_19b appends, for each field after the first, one record if
\* the part before its first underscore is not 4 characters long or all that follows that
\* underscore is longer than 4 characters, one record with the other message if it has no
\* underscore, and nothing otherwise.
C15_SplitAtFirstUnderscore ==
  (last.op = "rule_19b" /\ LineDescriptor(last.line) = "HEADING") =>
     AppendedOnly(last.pre, ags_errors, "Rule 19b",
                  Flatten([i \in 1..(Len(Fields(last.line)) - 1) |->
                             Rule19bDue(Fields(last.line)[i + 1], last.line_number, last.group)]))

\* C2: a second complete run of the rule set on the same file and dictionary, with a
\* fresh log, returns the log the first run returned.
C2_RunsAgree == (first_run.done /\ RunComplete) => ags_errors = first_run.errs

====
